---- MODULE Spec2Model ----
(***************************************************************************)
(* lambda-sqs-etl: three AWS Lambda handlers connected by two SQS queues.  *)
(*                                                                         *)
(*   handler_list_pages  lists the source bucket and sends pages of keys   *)
(*                       to the Pages queue; a state machine re-invokes it *)
(*                       with its own output until all_pages_listed is     *)
(*                       'TRUE'.                                           *)
(*   handler_split_page  sends the keys of each page to the S3 Objects     *)
(*                       queue in bulk sends of at most 10 messages.       *)
(*   handler_transform   flattens every JSON line of each object and       *)
(*                       writes the result to the destination bucket.      *)
(*                                                                         *)
(* S3 object keys are modelled as the positive integers; their order is    *)
(* the bucket's listing order.                                             *)
(***************************************************************************)
EXTENDS Integers, Sequences, FiniteSets, TLC

(***************************************************************************)
(* Bounds.  PageSize is the page threshold of handler_list_pages (1000 in  *)
(* the source, line 43), scaled down so that runs of several full pages    *)
(* can be enumerated; every formula below is stated in terms of PageSize.  *)
(***************************************************************************)
PageSize == 3

\* The source bucket holds the keys 1..n for some n in 0..MaxKeys.
MaxKeys == 8

\* event.get('bookmark', None): the value of an absent (or empty) bookmark.
NoBookmark == 0

\* chunks(page, 10): SQS accepts at most 10 messages in one send_messages call.
ChunkSize == 10

\* A page handed to handler_split_page holds 0..MaxPageLen keys, and one
\* invocation carries 1..MaxRecords page records.
MaxPageLen == 21
MaxRecords == 2

\* handler_transform: the buckets hold the keys 1..MaxObjects, a source object
\* has 0..MaxLines lines, and one invocation carries 1..MaxBatch key records.
MaxObjects == 2
MaxLines == 1
MaxBatch == 2

\* flatten: the dict handed to it holds 0..MaxNodes items, nested ones counted.
MaxNodes == 3

VARIABLES
    bucket,     \* SOURCE_BUCKET_NAME: the set of object keys of the source bucket
    event,      \* the state record passed to and returned by handler_list_pages
    bookmark,   \* handler_list_pages: the local "bookmark" (the Marker of the listing)
    page,       \* handler_list_pages: the local page buffer
    it,         \* handler_list_pages: the keys the listing has still to yield
    queue,      \* the Pages SQS queue: the MessageBody of every message sent, in order
    qlen0,      \* number of messages in the Pages queue when the invocation started
    dropped,    \* the keys the page buffers held when their invocations yielded
    pc,         \* "idle", "start", "scanning", "yielded" (returned 'FALSE'), "done"
    records,    \* handler_split_page: the bodies of event['Records']
    ri,         \* handler_split_page: index of the record the outer loop is at
    ci,         \* handler_split_page: number of batches of that record already sent
    sends,      \* the calls of s3objects_queue.send_messages, in order
    failedIgnored, \* some send_messages response listed 'Failed' entries
    spc,        \* "idle", "running", "done" (returned), "failed" (raised)
    trecords,   \* handler_transform: the bodies (keys) of event['Records']
    ti,         \* handler_transform: index of the record the loop is at
    source,     \* the source bucket: key -> Body, a sequence of lines
    dest,       \* the destination bucket: key -> [exists, Body]
    dest0,      \* the destination bucket as it was when the invocation started
    metrics,    \* the MetricData of every put_metric_data call that succeeded
    tcause,     \* handler_transform: the call that raised, or "none"
    tpc,        \* "idle", "running", "done" (returned), "failed" (raised)
    fin,        \* flatten: the dict d of the outermost call
    fout,       \* flatten: what flatten(d) returned
    fout2,      \* flatten: what flatten(flatten(d)) returned
    fpc         \* "idle", "called", "flattened", "reflattened"

listVars == <<bucket, event, bookmark, page, it, queue, qlen0, dropped, pc>>

splitVars == <<records, ri, ci, sends, failedIgnored, spc>>

transformVars == <<trecords, ti, source, dest, dest0, metrics, tcause, tpc>>

flattenVars == <<fin, fout, fout2, fpc>>

vars == <<listVars, splitVars, transformVars, flattenVars>>

----------------------------------------------------------------------------
(* Helpers *)

Range(s) == {s[i] : i \in 1..Len(s)}

Min(a, b) == IF a <= b THEN a ELSE b

\* ceil(a / b) for b > 0
CeilDiv(a, b) == (a + b - 1) \div b

SetMin(S) == CHOOSE m \in S : \A x \in S : m <= x

RECURSIVE SortedSeq(_)
SortedSeq(S) == IF S = {} THEN <<>>
                ELSE LET m == SetMin(S) IN <<m>> \o SortedSeq(S \ {m})

\* The total length of the sequences of q
RECURSIVE SumLen(_)
SumLen(q) == IF q = <<>> THEN 0 ELSE Len(Head(q)) + SumLen(Tail(q))

\* json.dumps of a list of key strings: the array of the keys' JSON strings.
JsonStr(k) == [str |-> k]
JsonDumps(p) == [i \in 1..Len(p) |-> JsonStr(p[i])]

\* json.loads of such an array
JsonLoads(b) == [i \in 1..Len(b) |-> b[i].str]

----------------------------------------------------------------------------
(* handler_list_pages *)

\* A listing that would also return the Marker itself.
ObjectsFilterInclusive(b, marker) ==
    SortedSeq({k \in b : marker = NoBookmark \/ k >= marker})

\* bucket.objects.filter(MaxKeys=1000[, Marker=bookmark]): the keys in listing
\* order; with a Marker, the keys that come strictly after it.
ObjectsFilter(b, marker) ==
    SortedSeq({k \in b : marker = NoBookmark \/ k > marker})

\* An entry that leaves the flag of the input event alone.
EntryEventKept(e) == e

\* event['all_pages_listed'] = 'FALSE' on entry
EntryEvent(e) == [e EXCEPT !.all_pages_listed = "FALSE"]

\* A flush one key too early.
PageFullEarly(p) == Len(p) >= PageSize - 1

\* len(page) == 1000
PageFull(p) == Len(p) = PageSize

\* An accept that forgets to move the bookmark.
SetBookmarkSkipped(e, k) == e

\* event['bookmark'] = s3object.key
SetBookmark(e, k) == [e EXCEPT !.bookmark = k]

\* A final send that does not look at the buffer.
PageLeftAlways(p) == TRUE

\* if page: (the final send is made only for a non-empty buffer)
PageLeft(p) == p # <<>>

ListInit ==
    /\ \E n \in 0..MaxKeys : bucket = 1..n
    /\ \E f \in {"TRUE", "FALSE"} :
          event = [bookmark |-> NoBookmark, all_pages_listed |-> f]
    /\ bookmark = NoBookmark
    /\ page = <<>>
    /\ it = <<>>
    /\ queue = <<>>
    /\ qlen0 = 0
    /\ dropped = {}
    /\ pc = "start"

\* The state machine invokes the handler, first with the initial event and then
\* with the event the previous invocation returned; the handler runs up to the
\* start of its loop.
Invoke ==
    /\ pc \in {"start", "yielded"}
    /\ event' = EntryEvent(event)
    /\ bookmark' = event.bookmark
    /\ it' = ObjectsFilter(bucket, event.bookmark)
    /\ page' = <<>>
    /\ qlen0' = Len(queue)
    /\ pc' = "scanning"
    /\ UNCHANGED <<bucket, queue, dropped>>
    /\ UNCHANGED <<splitVars, transformVars, flattenVars>>

\* The listing yields an object and fewer than 30 seconds remain: return event.
Yield ==
    /\ pc = "scanning"
    /\ it # <<>>
    /\ dropped' = dropped \cup Range(page)
    /\ pc' = "yielded"
    /\ UNCHANGED <<bucket, event, bookmark, page, it, queue, qlen0>>
    /\ UNCHANGED <<splitVars, transformVars, flattenVars>>

\* The listing yields an object and there is time left: one pass of the loop body.
Accept ==
    /\ pc = "scanning"
    /\ it # <<>>
    /\ LET k == Head(it)
           p == Append(page, k)
       IN  /\ IF PageFull(p)
                 THEN /\ queue' = Append(queue, JsonDumps(p))
                      /\ page' = <<>>
                 ELSE /\ page' = p
                      /\ UNCHANGED queue
           /\ event' = SetBookmark(event, k)
    /\ it' = Tail(it)
    /\ UNCHANGED <<bucket, bookmark, qlen0, dropped, pc>>
    /\ UNCHANGED <<splitVars, transformVars, flattenVars>>

\* The listing is exhausted: send the remaining keys, if any, and return 'TRUE'.
Finish ==
    /\ pc = "scanning"
    /\ it = <<>>
    /\ queue' = IF PageLeft(page) THEN Append(queue, JsonDumps(page)) ELSE queue
    /\ event' = [event EXCEPT !.all_pages_listed = "TRUE"]
    /\ pc' = "done"
    /\ UNCHANGED <<bucket, bookmark, page, it, qlen0, dropped>>
    /\ UNCHANGED <<splitVars, transformVars, flattenVars>>

\* handler_split_page is not running.
SplitIdle ==
    /\ records = <<>>
    /\ ri = 0
    /\ ci = 0
    /\ sends = <<>>
    /\ failedIgnored = FALSE
    /\ spc = "idle"

\* handler_transform is not running.
TransformIdle ==
    /\ trecords = <<>>
    /\ ti = 0
    /\ source = <<>>
    /\ dest = <<>>
    /\ dest0 = <<>>
    /\ metrics = <<>>
    /\ tcause = "none"
    /\ tpc = "idle"

\* flatten is not being called
FlattenIdle ==
    /\ fin = <<>>
    /\ fout = <<>>
    /\ fout2 = <<>>
    /\ fpc = "idle"

Init == ListInit /\ SplitIdle /\ TransformIdle /\ FlattenIdle

Next == Invoke \/ Yield \/ Accept \/ Finish

Spec == Init /\ [][Next]_vars

\* The state machine always re-invokes, an exhausted listing always ends the
\* invocation, and the time budget lets a key be accepted again and again.
LiveSpec ==
    /\ Init
    /\ [][Next]_vars
    /\ WF_vars(Invoke)
    /\ WF_vars(Finish)
    /\ SF_vars(Accept)

----------------------------------------------------------------------------
(* handler_split_page *)

\* chunks(l, n): the slices l[i:i + n] for i in range(0, len(l), n)
chunks(l, n) ==
    [c \in 1..CeilDiv(Len(l), n) |->
        SubSeq(l, (c - 1) * n + 1, Min(c * n, Len(l)))]

\* The keys first..first + n - 1 in listing order (a page as the lister builds it)
KeyRun(first, n) == [i \in 1..n |-> first + i - 1]

RECURSIVE PagesOf(_, _)
\* One page per length of lens, over consecutive keys starting at first
PagesOf(lens, first) ==
    IF lens = <<>> THEN <<>>
    ELSE <<JsonDumps(KeyRun(first, Head(lens)))>>
            \o PagesOf(Tail(lens), first + Head(lens))

\* page = json.loads(record['body']) of the record the outer loop is at
CurrentPage == JsonLoads(records[ri])

\* The batches of the current page
CurrentChunks == chunks(CurrentPage, ChunkSize)

\* The number of messages handed to send_messages so far
EntriesSent == SumLen([i \in 1..Len(sends) |-> sends[i].Entries])

\* Entries=[{'Id': str(uuid.uuid4()), 'MessageBody': key} for key in batch];
\* the fresh uuid is modelled as the number of the message in the invocation.
EntriesOf(batch) ==
    [i \in 1..Len(batch) |-> [Id |-> EntriesSent + i, MessageBody |-> batch[i]]]

\* The queue delivers an event of 1..MaxRecords page messages.
SplitInit ==
    /\ \E m \in 1..MaxRecords :
          \E lens \in [1..m -> 0..MaxPageLen] : records = PagesOf(lens, 1)
    /\ ri = 1
    /\ ci = 0
    /\ sends = <<>>
    /\ failedIgnored = FALSE
    /\ spc = "running"

\* One pass of the inner loop: send the next batch of the current page.  The
\* call returns a response that lists no 'Failed' entry ("ok") or some
\* ("failed_entries", a response the handler does not read), or it raises
\* ("raised"), which ends the handler.
SendMessages(outcome) ==
    /\ spc = "running"
    /\ ri <= Len(records)
    /\ ci < Len(CurrentChunks)
    /\ sends' = Append(sends, [record |-> ri, Entries |-> EntriesOf(CurrentChunks[ci + 1])])
    /\ ci' = ci + 1
    /\ failedIgnored' = (failedIgnored \/ outcome = "failed_entries")
    /\ spc' = IF outcome = "raised" THEN "failed" ELSE "running"
    /\ UNCHANGED <<records, ri>>
    /\ UNCHANGED <<listVars, transformVars, flattenVars>>

\* The batches of the current page are all sent: on to the next record.
NextRecord ==
    /\ spc = "running"
    /\ ri <= Len(records)
    /\ ci = Len(CurrentChunks)
    /\ ri' = ri + 1
    /\ ci' = 0
    /\ UNCHANGED <<records, sends, failedIgnored, spc>>
    /\ UNCHANGED <<listVars, transformVars, flattenVars>>

\* The records are exhausted: the handler returns.
SplitReturn ==
    /\ spc = "running"
    /\ ri > Len(records)
    /\ spc' = "done"
    /\ UNCHANGED <<records, ri, ci, sends, failedIgnored>>
    /\ UNCHANGED <<listVars, transformVars, flattenVars>>

\* The lister is not running.
ListIdle ==
    /\ bucket = {}
    /\ event = [bookmark |-> NoBookmark, all_pages_listed |-> "FALSE"]
    /\ bookmark = NoBookmark
    /\ page = <<>>
    /\ it = <<>>
    /\ queue = <<>>
    /\ qlen0 = 0
    /\ dropped = {}
    /\ pc = "idle"

SplitNext ==
    \/ \E outcome \in {"ok", "failed_entries", "raised"} : SendMessages(outcome)
    \/ NextRecord
    \/ SplitReturn

\* An invocation of handler_split_page on its own
SplitStart == ListIdle /\ SplitInit /\ TransformIdle /\ FlattenIdle

SplitSpec == SplitStart /\ [][SplitNext]_vars

----------------------------------------------------------------------------
(* Observations on the sends of handler_split_page *)

\* The send_messages calls made for record r, in order
SendsOf(r) == SelectSeq(sends, LAMBDA s : s.record = r)

RECURSIVE Concat(_)
Concat(ss) == IF ss = <<>> THEN <<>> ELSE Head(ss) \o Concat(Tail(ss))

\* The message bodies sent for record r, concatenated in send order
BodiesOf(r) ==
    LET ss == SendsOf(r) IN
    Concat([i \in 1..Len(ss) |->
              [j \in 1..Len(ss[i].Entries) |-> ss[i].Entries[j].MessageBody]])

----------------------------------------------------------------------------
(* flatten *)

(* A JSON value is a number [num |-> n], an array [list |-> <<...>>] or an    *)
(* object [map |-> d]; a dict d is the sequence of its items [k |-> key,      *)
(* v |-> value] in insertion order, with no key twice.                        *)

\* isinstance(v, collections.MutableMapping)
IsMapping(v) == "map" \in DOMAIN v

RECURSIVE DictSet(_, _, _)
\* d[k] = v: a new key goes last, a key already there keeps its place
DictSet(d, k, v) ==
    IF d = <<>> THEN <<[k |-> k, v |-> v]>>
    ELSE IF Head(d).k = k THEN <<[k |-> k, v |-> v]>> \o Tail(d)
    ELSE <<Head(d)>> \o DictSet(Tail(d), k, v)

RECURSIVE DictFrom(_, _)
\* the items of its second argument set, in order, into the dict d
DictFrom(d, items) ==
    IF items = <<>> THEN d
    ELSE DictFrom(DictSet(d, Head(items).k, Head(items).v), Tail(items))

\* dict(items)
Dict(items) == DictFrom(<<>>, items)

\* A key that gets the separator even below no parent.
NewKeyAlwaysSep(parent_key, k) == parent_key \o "." \o k

\* new_key = parent_key + sep + k if parent_key else k, with sep = '.'
NewKey(parent_key, k) == IF parent_key # "" THEN parent_key \o "." \o k ELSE k

RECURSIVE FlattenItems(_, _)
\* The list "items" that flatten(d, parent_key) builds over d.items()
FlattenItems(d, parent_key) ==
    IF d = <<>> THEN <<>>
    ELSE LET k == Head(d).k
             v == Head(d).v
             new_key == NewKey(parent_key, k)
         IN  (IF IsMapping(v)
                 THEN Dict(FlattenItems(v.map, new_key))
                 ELSE <<[k |-> new_key, v |-> v]>>)
             \o FlattenItems(Tail(d), parent_key)

\* flatten(d, parent_key)
flatten(d, parent_key) == Dict(FlattenItems(d, parent_key))

----------------------------------------------------------------------------
(* handler_transform *)

(* A line of a source object is a text [json |-> v] that json.loads parses   *)
(* to the value v, or a text [bad |-> ...] that json.loads rejects.  A Body  *)
(* is the sequence of its lines, as splitlines() cuts it and '\n'.join()      *)
(* builds it.                                                                 *)

Num(n) == [num |-> n]
Obj(d) == [map |-> d]
Item(k, v) == [k |-> k, v |-> v]

\* {"a": {"b": 1, "c": {"d": 2}}}
NestedLine ==
    [json |-> Obj(<<Item("a", Obj(<<Item("b", Num(1)),
                                    Item("c", Obj(<<Item("d", Num(2))>>))>>))>>)]

\* {"x": 1, "l": [1, 2]}
FlatLine == [json |-> Obj(<<Item("x", Num(1)), Item("l", [list |-> <<1, 2>>])>>)]

\* a line that is not JSON
BadLine == [bad |-> "{"]

Lines == {NestedLine, FlatLine, BadLine}

\* The bodies of 0..MaxLines lines
Bodies == UNION {[1..n -> Lines] : n \in 0..MaxLines}

\* what an earlier writer left at a destination key
StaleBody == <<[json |-> Obj(<<Item("old", Num(0))>>)]>>

\* json.loads(line) raises
LoadFails(line) == IF "bad" \in DOMAIN line THEN TRUE ELSE ~IsMapping(line.json)

\* json.dumps(flatten(json.loads(line)))
TransformLine(line) == [json |-> Obj(flatten(line.json.map, ""))]

\* items = [json.dumps(flatten(json.loads(line))) for line in lines]
ItemsOf(lines) == [i \in 1..Len(lines) |-> TransformLine(lines[i])]

\* The lines of a body that come before its first line json.loads rejects
RECURSIVE GoodPrefix(_)
GoodPrefix(lines) ==
    IF lines = <<>> THEN <<>>
    ELSE IF LoadFails(Head(lines)) THEN <<>>
    ELSE <<Head(lines)>> \o GoodPrefix(Tail(lines))

\* A writer that puts every item as soon as it is computed.
DestWrittenLineByLine(d, k, lines) ==
    [d EXCEPT ![k] = [exists |-> TRUE, Body |-> ItemsOf(GoodPrefix(lines))]]

\* json.loads or flatten raises inside the comprehension of line 102, before
\* destination_s3object.put is reached: the destination is as it was.
DestOnLoadError(d, k, lines) == d

\* A put that appends to the object that is there.
PutObjectAppend(old, items) == [exists |-> TRUE, Body |-> old.Body \o items]

\* destination_s3object.put(Body='\n'.join(items)): the object is replaced.
PutObject(old, items) == [exists |-> TRUE, Body |-> items]

\* MetricData of put_metric_data
MetricData(items) ==
    <<[MetricName |-> "S3ObjectsProcessed", Value |-> 1],
      [MetricName |-> "LinesProcessed", Value |-> Len(items)]>>

\* The key of the record the loop is at
CurrentKey == trecords[ti]

\* The queue delivers an event of 1..MaxBatch key records, in any order and
\* with repetitions; the destination is empty or holds earlier content.
TransformInit ==
    /\ source \in [1..MaxObjects -> Bodies]
    /\ \E n \in 1..MaxBatch : trecords \in [1..n -> 1..MaxObjects]
    /\ \E old \in {[exists |-> FALSE, Body |-> <<>>],
                   [exists |-> TRUE, Body |-> StaleBody]} :
          dest = [k \in 1..MaxObjects |-> old]
    /\ dest0 = dest
    /\ ti = 1
    /\ metrics = <<>>
    /\ tcause = "none"
    /\ tpc = "running"

\* source_s3object.get() or the read of its Body raises.
GetRaises ==
    /\ tpc = "running"
    /\ ti <= Len(trecords)
    /\ tcause' = "get"
    /\ tpc' = "failed"
    /\ UNCHANGED <<trecords, ti, source, dest, dest0, metrics>>
    /\ UNCHANGED <<listVars, splitVars, flattenVars>>

\* json.loads or flatten raises on a line of the object.
LoadRaises ==
    /\ tpc = "running"
    /\ ti <= Len(trecords)
    /\ \E i \in 1..Len(source[CurrentKey]) : LoadFails(source[CurrentKey][i])
    /\ dest' = DestOnLoadError(dest, CurrentKey, source[CurrentKey])
    /\ tcause' = "loads"
    /\ tpc' = "failed"
    /\ UNCHANGED <<trecords, ti, source, dest0, metrics>>
    /\ UNCHANGED <<listVars, splitVars, flattenVars>>

\* destination_s3object.put raises: the destination object is not written.
PutRaises ==
    /\ tpc = "running"
    /\ ti <= Len(trecords)
    /\ \A i \in 1..Len(source[CurrentKey]) : ~LoadFails(source[CurrentKey][i])
    /\ tcause' = "put"
    /\ tpc' = "failed"
    /\ UNCHANGED <<trecords, ti, source, dest, dest0, metrics>>
    /\ UNCHANGED <<listVars, splitVars, flattenVars>>

\* The object is written and put_metric_data raises.
PutMetricDataRaises ==
    /\ tpc = "running"
    /\ ti <= Len(trecords)
    /\ \A i \in 1..Len(source[CurrentKey]) : ~LoadFails(source[CurrentKey][i])
    /\ dest' = [dest EXCEPT ![CurrentKey] =
                  PutObject(dest[CurrentKey], ItemsOf(source[CurrentKey]))]
    /\ tcause' = "put_metric_data"
    /\ tpc' = "failed"
    /\ UNCHANGED <<trecords, ti, source, dest0, metrics>>
    /\ UNCHANGED <<listVars, splitVars, flattenVars>>

\* One full pass of the loop body: read, transform, write, report.
TransformRecord ==
    /\ tpc = "running"
    /\ ti <= Len(trecords)
    /\ \A i \in 1..Len(source[CurrentKey]) : ~LoadFails(source[CurrentKey][i])
    /\ dest' = [dest EXCEPT ![CurrentKey] =
                  PutObject(dest[CurrentKey], ItemsOf(source[CurrentKey]))]
    /\ metrics' = Append(metrics, MetricData(ItemsOf(source[CurrentKey])))
    /\ ti' = ti + 1
    /\ UNCHANGED <<trecords, source, dest0, tcause, tpc>>
    /\ UNCHANGED <<listVars, splitVars, flattenVars>>

\* The records are exhausted: the handler returns.
TransformReturn ==
    /\ tpc = "running"
    /\ ti > Len(trecords)
    /\ tpc' = "done"
    /\ UNCHANGED <<trecords, ti, source, dest, dest0, metrics, tcause>>
    /\ UNCHANGED <<listVars, splitVars, flattenVars>>

TransformNext ==
    \/ GetRaises
    \/ LoadRaises
    \/ PutRaises
    \/ PutMetricDataRaises
    \/ TransformRecord
    \/ TransformReturn

\* An invocation of handler_transform on its own
TransformStart == ListIdle /\ SplitIdle /\ TransformInit /\ FlattenIdle

TransformSpec == TransformStart /\ [][TransformNext]_vars

----------------------------------------------------------------------------
(* Calls of flatten *)

\* The keys of the generated objects: plain ones, one that holds the
\* separator, and the empty string
Keys == {"a", "b", "a.b", ""}

\* The values that are not mappings: numbers and a sequence
LeafValues == {Num(1), Num(2), [list |-> <<1, 2>>]}

\* The values of s nodes, given in tab[i + 1] the dicts of i nodes: a leaf or
\* an empty object for s = 1, else an object of s - 1 nodes
ValuesOf(tab, s) ==
    IF s = 1 THEN LeafValues \cup {Obj(<<>>)} ELSE {Obj(d) : d \in tab[s]}

\* The dicts of Len(tab) nodes, nested items counted, that start with an item
\* of key k and s nodes: that item, followed by the items of a dict of the
\* remaining nodes without the key k
DictsWith(tab, s, k) ==
    {<<Item(k, v)>> \o r :
        v \in ValuesOf(tab, s),
        r \in {d \in tab[Len(tab) - s + 1] : \A i \in 1..Len(d) : d[i].k # k}}

\* The dicts of Len(tab) nodes
NextDicts(tab) ==
    UNION {UNION {DictsWith(tab, s, k) : k \in Keys} : s \in 1..Len(tab)}

RECURSIVE DictTable(_, _)
\* tab extended up to the dicts of max nodes
DictTable(tab, max) ==
    IF Len(tab) > max THEN tab
    ELSE DictTable(Append(tab, NextDicts(tab)), max)

\* flatten is called with a dict json.loads can return: any dict of
\* 0..MaxNodes nodes over Keys and LeafValues, or the nested example
\* {"a": {"b": 1, "c": {"d": 2}}}
FlattenInit ==
    /\ \/ fin \in {<<>>, NestedLine.json.map}
       \/ \E n \in 1..MaxNodes :
             LET tab == DictTable(<<{<<>>}>>, n - 1)
             IN  \E s \in 1..n : \E k \in Keys : fin \in DictsWith(tab, s, k)
    /\ fout = <<>>
    /\ fout2 = <<>>
    /\ fpc = "called"

\* flatten(d) returns
FlattenCall ==
    /\ fpc = "called"
    /\ fout' = flatten(fin, "")
    /\ fpc' = "flattened"
    /\ UNCHANGED <<fin, fout2>>
    /\ UNCHANGED <<listVars, splitVars, transformVars>>

\* flatten is called with what it returned
FlattenAgain ==
    /\ fpc = "flattened"
    /\ fout2' = flatten(fout, "")
    /\ fpc' = "reflattened"
    /\ UNCHANGED <<fin, fout>>
    /\ UNCHANGED <<listVars, splitVars, transformVars>>

FlattenNext == FlattenCall \/ FlattenAgain

FlattenStart == ListIdle /\ SplitIdle /\ TransformIdle /\ FlattenInit

FlattenSpec == FlattenStart /\ [][FlattenNext]_vars

RECURSIVE LeavesOf(_, _)
\* The leaves of d in iteration order, each with the keys of its ancestors
\* and its own, outermost first
LeavesOf(d, path) ==
    IF d = <<>> THEN <<>>
    ELSE LET here == Append(path, Head(d).k) IN
         (IF "map" \in DOMAIN Head(d).v
             THEN LeavesOf(Head(d).v.map, here)
             ELSE <<[path |-> here, v |-> Head(d).v]>>)
         \o LeavesOf(Tail(d), path)

RECURSIVE Joined(_)
\* '.'.join(path)
Joined(path) ==
    IF Len(path) = 1 THEN path[1] ELSE path[1] \o "." \o Joined(Tail(path))

\* No two leaves have the same joined key
JoinedDistinct(ls) ==
    \A i, j \in 1..Len(ls) : Joined(ls[i].path) = Joined(ls[j].path) => i = j

\* d has no mapping as a value
IsFlat(d) == \A i \in 1..Len(d) : ~("map" \in DOMAIN d[i].v)

\* flatten has returned
Flattened == fpc \in {"flattened", "reflattened"}

----------------------------------------------------------------------------
(* Observations on the Pages queue *)

\* The keys of the i-th message sent to the Pages queue
PageKeys(i) == Range(JsonLoads(queue[i]))

\* The messages that carry key k
PagesWith(k) == {i \in 1..Len(queue) : k \in PageKeys(i)}

\* The source keys that no message of the Pages queue carries
Unsent == {k \in bucket : PagesWith(k) = {}}

----------------------------------------------------------------------------
(* Claims about handler_list_pages *)

\* C1: when the run ends (an invocation returned all_pages_listed = 'TRUE'),
\* every source key is in exactly one page message, and the pages hold as many
\* keys as the bucket.
C1_EveryKeyInOnePage ==
    pc = "done" =>
        /\ \A k \in bucket : Cardinality(PagesWith(k)) = 1
        /\ SumLen(queue) = Cardinality(bucket)

\* C2: at every return of the handler, every source key at or before the
\* returned bookmark has been sent in some page, and the keys of an un-flushed
\* page buffer lie strictly after the returned bookmark.
C2_BookmarkIsCommitted ==
    pc \in {"yielded", "done"} =>
        /\ \A k \in bucket : k <= event.bookmark => PagesWith(k) # {}
        /\ pc = "yielded" => \A k \in Range(page) : k > event.bookmark

\* C3: an invocation started with bookmark b sends neither b nor a key before
\* b, and no key of the run is sent in two pages.
C3_NeverReemits ==
    /\ \A i \in (qlen0 + 1)..Len(queue) :
          \A k \in PageKeys(i) : bookmark = NoBookmark \/ k > bookmark
    /\ \A k \in bucket : Cardinality(PagesWith(k)) <= 1
    /\ \A i \in 1..Len(queue) : Cardinality(PageKeys(i)) = Len(queue[i])

\* A resumed invocation has sent a page, after an earlier invocation sent one.
C3_Witness ==
    /\ bookmark # NoBookmark
    /\ qlen0 > 0
    /\ Len(queue) > qlen0

\* C4: re-invoked with its own output, the handler eventually returns
\* all_pages_listed = 'TRUE', provided the time budget lets keys be accepted.
C4_EventuallyListed ==
    <>(pc = "done" /\ event.all_pages_listed = "TRUE")

\* A run that yielded at least once has ended with 'TRUE'.
C4_Witness ==
    /\ pc = "done"
    /\ event.all_pages_listed = "TRUE"
    /\ bookmark # NoBookmark

\* C5: 'TRUE' is returned exactly when the invocation's listing was exhausted
\* and the buffered keys were sent; a return on the time budget carries
\* 'FALSE', whatever the input event carried.
C5_ListedIffExhausted ==
    /\ pc \in {"scanning", "yielded"} => event.all_pages_listed = "FALSE"
    /\ pc = "yielded" => it # <<>>
    /\ pc = "done" =>
          /\ event.all_pages_listed = "TRUE"
          /\ it = <<>>
          /\ \A k \in bucket : k <= event.bookmark
          /\ page # <<>> =>
                /\ Len(queue) > qlen0
                /\ queue[Len(queue)] = JsonDumps(page)

\* The first invocation has returned on the time budget after accepting a key.
C5_Witness ==
    /\ pc = "yielded"
    /\ qlen0 = 0
    /\ bookmark = NoBookmark
    /\ event.bookmark # NoBookmark
    /\ event.all_pages_listed = "FALSE"

\* C6: every page message holds 1..PageSize keys; a shorter page is the last
\* message of the run, sent by the invocation that returned 'TRUE'; an
\* invocation that yields has sent full pages only and has not sent its buffer.
C6_PageSizes ==
    /\ \A i \in 1..Len(queue) :
          /\ Len(queue[i]) >= 1
          /\ Len(queue[i]) <= PageSize
          /\ Len(queue[i]) < PageSize =>
                /\ pc = "done"
                /\ i = Len(queue)
                /\ i > qlen0
    /\ pc = "yielded" => \A k \in Range(page) : PagesWith(k) = {}

\* An invocation has yielded with a partial buffer after sending a full page.
C6_Witness ==
    /\ pc = "yielded"
    /\ Len(queue) > qlen0
    /\ page # <<>>

\* C7: the run sends ceil(N / PageSize) pages, all full except a last one of
\* N mod PageSize keys, wherever the yields fall.
C7_PageCount ==
    pc = "done" =>
        LET n == Cardinality(bucket) IN
        /\ Len(queue) = CeilDiv(n, PageSize)
        /\ \A i \in 1..Len(queue) :
              Len(queue[i]) = IF i < Len(queue) \/ n % PageSize = 0
                              THEN PageSize ELSE n % PageSize

----------------------------------------------------------------------------
(* Claims about handler_split_page *)

\* C8: for every page of K keys the handler issues exactly ceil(K / 10) bulk
\* sends, each of 1..10 messages, whose bodies concatenated in send order are
\* the page's keys.
C8_SendsCoverPage ==
    spc \in {"done", "failed"} =>
        \A r \in 1..Len(records) :
            /\ Len(SendsOf(r)) = CeilDiv(Len(records[r]), ChunkSize)
            /\ \A i \in 1..Len(SendsOf(r)) :
                  /\ Len(SendsOf(r)[i].Entries) >= 1
                  /\ Len(SendsOf(r)[i].Entries) <= ChunkSize
            /\ BodiesOf(r) = JsonLoads(records[r])

\* C9: a failed bulk send for one sub-batch of a page does not keep the later
\* sub-batches of that page from being attempted.
C9_LaterBatchesAttempted ==
    spc = "failed" =>
        Len(SendsOf(ri)) = CeilDiv(Len(records[ri]), ChunkSize)

----------------------------------------------------------------------------
(* Claims about handler_transform *)

\* C10: a failure of put_metric_data for a key whose destination write
\* succeeded does not fail the invocation: the handler goes on to the
\* remaining records and returns.
C10_MetricsFailureSwallowed ==
    tcause = "put_metric_data" => tpc # "failed"

\* The causes of failure C11 is about: reading, parsing/flattening, writing
KeyFailures == {"get", "loads", "put"}

\* The record the loop is at has a key that an earlier record of the same
\* event already wrote
WrittenEarlier == \E i \in 1..(ti - 1) : trecords[i] = CurrentKey

\* C11 as stated: when reading, parsing/flattening or writing a key fails, the
\* destination object of that key is as it was before the invocation.
C11_AsBeforeInvocation ==
    (tpc = "failed" /\ tcause \in KeyFailures)
        => dest[CurrentKey] = dest0[CurrentKey]

\* C11: a failure of reading, parsing/flattening or writing a key ends the
\* invocation in failure, success is reported only when every record of the
\* event was written, and the failed attempt leaves the destination object of
\* its key as it was before that attempt: as before the invocation, or as the
\* complete write of an earlier record of the same event with the same key.
C11_FailureLeavesNoPartialWrite ==
    /\ tcause \in KeyFailures => tpc = "failed"
    /\ tpc = "done" => ti = Len(trecords) + 1
    /\ (tpc = "failed" /\ tcause \in KeyFailures) =>
          dest[CurrentKey] =
              IF WrittenEarlier
              THEN [exists |-> TRUE, Body |-> ItemsOf(source[CurrentKey])]
              ELSE dest0[CurrentKey]

C11_Witness ==
    /\ tpc = "failed"
    /\ tcause \in KeyFailures
    /\ dest0[CurrentKey].exists
    /\ WrittenEarlier

\* C12: every key the invocation has processed successfully holds the
\* flattened records of its source object and nothing else, whatever the
\* destination held before and however often the key was delivered.
C12_OverwriteNotAppend ==
    \A i \in 1..(ti - 1) :
        dest[trecords[i]] =
            [exists |-> TRUE, Body |-> ItemsOf(source[trecords[i]])]

C12_Witness ==
    /\ tpc = "done"
    /\ Len(trecords) = 2
    /\ trecords[1] = trecords[2]
    /\ dest0[trecords[1]].exists
    /\ source[trecords[1]] # <<>>

\* C13: whenever the leaves of the input have pairwise distinct joined keys,
\* flatten returns exactly one entry per leaf, keyed by the keys of the
\* leaf's ancestors and its own joined with '.', with the leaf's value.
C13_OneEntryPerLeaf ==
    Flattened =>
        LET ls == LeavesOf(fin, <<>>) IN
        JoinedDistinct(ls) =>
            /\ Len(fout) = Len(ls)
            /\ \A i \in 1..Len(ls) :
                  \E j \in 1..Len(fout) :
                      fout[j] = Item(Joined(ls[i].path), ls[i].v)

\* C14: flatten returns a mapping without nested mappings as it is, and
\* flatten of what flatten returned is what flatten returned.
C14_FlattenIdempotent ==
    /\ (Flattened /\ IsFlat(fin)) => fout = fin
    /\ fpc = "reflattened" => fout2 = fout

C14_Witness ==
    /\ fpc = "reflattened"
    /\ ~IsFlat(fin)
    /\ Len(fout) >= 2

----------------------------------------------------------------------------
(* Further claims about handler_list_pages *)

\* The keys the invocation has accepted so far, in order: those of the
\* messages it has sent and those in its buffer
Accepted ==
    Concat([i \in 1..(Len(queue) - qlen0) |-> JsonLoads(queue[qlen0 + i])])
    \o (IF pc = "done" THEN <<>> ELSE page)

\* The invocation returned on the time budget right after a flush
YieldedAfterFlush ==
    /\ pc = "yielded"
    /\ Len(Accepted) > 0
    /\ Len(Accepted) % PageSize = 0

\* The last key of the message sent last
LastSentKey ==
    LET p == JsonLoads(queue[Len(queue)]) IN p[Len(p)]

\* C15: an invocation that yields when the keys it accepted are a positive
\* multiple of PageSize has an empty buffer and its last page is in the
\* queue once; the next invocation sends nothing on entry and its listing
\* starts with the key that follows the last key of that page; no two
\* messages of the run share a key.
C15_YieldAfterFlush ==
    /\ [](YieldedAfterFlush =>
            /\ page = <<>>
            /\ Len(queue) > qlen0
            /\ Cardinality({i \in 1..Len(queue) :
                              queue[i] = queue[Len(queue)]}) = 1)
    /\ [](\A i, j \in 1..Len(queue) :
            i # j => PageKeys(i) \cap PageKeys(j) = {})
    /\ [][(YieldedAfterFlush /\ pc' = "scanning") =>
            /\ queue' = queue
            /\ it' = SortedSeq({k \in bucket : k > LastSentKey})]_vars

\* A resumed invocation accepted the key after the last key of the page that
\* the invocation before it flushed just before it yielded.
C15_Witness ==
    /\ pc = "scanning"
    /\ qlen0 > 0
    /\ Len(queue) = qlen0
    /\ bookmark = LastSentKey
    /\ page = <<bookmark + 1>>

\* C16: a bucket of fewer than PageSize keys gets no message before the
\* invocation that returns 'TRUE'; an empty bucket never yields and gets no
\* message at all; a non-empty one gets exactly one message, of fewer than
\* PageSize keys, sent by the invocation that returns 'TRUE'.
C16_FewKeys ==
    (Cardinality(bucket) < PageSize /\ pc # "idle") =>
        /\ pc # "done" => queue = <<>>
        /\ bucket = {} => (pc # "yielded" /\ queue = <<>>)
        /\ pc = "done" => event.all_pages_listed = "TRUE"
        /\ (bucket # {} /\ pc = "done") =>
              /\ Len(queue) = 1
              /\ Len(queue[1]) \in 1..(PageSize - 1)
              /\ qlen0 = 0

C16_Witness ==
    /\ pc = "done"
    /\ Cardinality(bucket) = PageSize - 1
    /\ Len(queue) = 1

\* C18: the bookmark of the event is never before the bookmark the invocation
\* was given, it is after it exactly when the invocation has accepted a key,
\* and it is then the key accepted last.
C18_BookmarkFollowsAccepted ==
    pc \in {"scanning", "yielded", "done"} =>
        /\ event.bookmark >= bookmark
        /\ event.bookmark > bookmark <=> Accepted # <<>>
        /\ event.bookmark =
              IF Accepted = <<>> THEN bookmark ELSE Accepted[Len(Accepted)]

C18_Witness ==
    /\ pc = "yielded"
    /\ bookmark # NoBookmark
    /\ Len(Accepted) >= 2

\* C19: an invocation that yields before it accepts a key has sent nothing and
\* returns the bookmark it was given with all_pages_listed = 'FALSE', and the
\* next invocation gets the same Marker and the same listing.
C19_YieldBeforeAccept ==
    /\ []((pc = "yielded" /\ Accepted = <<>>) =>
            /\ Len(queue) = qlen0
            /\ event.bookmark = bookmark
            /\ event.all_pages_listed = "FALSE")
    /\ [][(pc = "yielded" /\ Accepted = <<>> /\ pc' = "scanning") =>
            /\ bookmark' = bookmark
            /\ it' = it
            /\ queue' = queue]_vars

\* A resumed invocation yielded before it accepted a key
C19_Witness ==
    /\ pc = "yielded"
    /\ Accepted = <<>>
    /\ bookmark # NoBookmark

\* C20: the buffer of a running invocation holds the last
\* (accepted mod PageSize) keys it accepted, no key is in the buffers of two
\* yields, and when 'TRUE' is returned the source keys in no message are the
\* keys of the buffers held at the yields, so that the messages hold N minus
\* the sizes of those buffers.
C20_UnsentAreDropped ==
    /\ [](pc \in {"scanning", "yielded"} =>
            page = SubSeq(Accepted,
                          Len(Accepted) - (Len(Accepted) % PageSize) + 1,
                          Len(Accepted)))
    /\ [][(pc = "scanning" /\ pc' = "yielded") =>
            /\ Range(page) \cap dropped = {}
            /\ Cardinality(dropped') = Cardinality(dropped) + Len(page)]_vars
    /\ [](pc = "done" =>
            /\ Unsent = dropped
            /\ SumLen(queue) = Cardinality(bucket) - Cardinality(dropped))

\* A run with several messages has ended after yields that held keys
C20_Witness ==
    /\ pc = "done"
    /\ Cardinality(dropped) >= 2
    /\ Len(queue) >= 2

----------------------------------------------------------------------------
(* Further claims about handler_split_page *)

\* C17: an invocation that carries several page records returns (reports
\* success) only if every key of every record was handed to send_messages
\* and no send failed: neither a call that raised nor a response that listed
\* 'Failed' entries.
C17_SuccessMeansAllSent ==
    (spc = "done" /\ Len(records) >= 2) =>
        /\ \A r \in 1..Len(records) : BodiesOf(r) = JsonLoads(records[r])
        /\ ~failedIgnored

============================================================================
